---- MODULE Spec2Model ----
(***************************************************************************)
(* AutoVibez release asset packager (scripts/package_release.py).          *)
(*                                                                         *)
(* The state is the part of the file system the script touches, the wall   *)
(* clock it reads, its standard output and the position of main.  Python   *)
(* library calls are modelled by what they do: Path.mkdir(exist_ok=True),  *)
(* zipfile.ZipFile(path, 'w') (creates or truncates the file),             *)
(* ZipFile.writestr(arcname, data) (appends one entry stamped with the     *)
(* current local time), json.dumps / json.loads, datetime.now().isoformat  *)
(* and open(path, 'w').                                                    *)
(*                                                                         *)
(* Text is kept as a sequence of lines, a line as a tuple of segments, so  *)
(* that the interpolated values of the f-string templates stay visible.    *)
(* Markdown code fences are written ~~~ and the emoji of the headings and  *)
(* of the console messages are left out (module text is ASCII).            *)
(***************************************************************************)
EXTENDS Integers, Sequences, FiniteSets, TLC

VARIABLES
    fs,        \* regular files: path -> content
    dirs,      \* existing directories (names in the working directory)
    clock,     \* last value read from the wall clock, in units of 2 s
    pc,        \* the statement of main being executed ("api": no main)
    exc,       \* the unhandled exception that ended main, or "none"
    run,       \* how many times the script has been started
    stdout,    \* what the current process has printed
    written,   \* paths opened for writing by the current process, in order
    prev,      \* the file system as the previous process left it
    lastCall,  \* the last packager method called, with its arguments
    calls      \* number of direct method calls made (ApiSpec)

vars == <<fs, dirs, clock, pc, exc, run, stdout, written, prev, lastCall, calls>>

\* Bounds of the model.
MaxClock == 1
MaxRuns == 2
MaxCalls == 2

----------------------------------------------------------------------------
\* Paths and the file system

OutputDir == "release-assets"

WorkDir == "."

MkPath(parent, stem, suffix) == [parent |-> parent, stem |-> stem, suffix |-> suffix]

PathName(p) == p.stem \o p.suffix

OutputDirAsFile == MkPath(WorkDir, OutputDir, "")

\* Variant: the file name does not depend on the name argument.
PresetPackagePath_IgnoresName(name) == MkPath(OutputDir, "autovibez-presets", ".zip")

PresetPackagePath(name) == MkPath(OutputDir, "autovibez-presets-" \o name, ".zip")

TexturePackagePath(name) == MkPath(OutputDir, "autovibez-textures-" \o name, ".zip")

\* Variant: the archive is put beside the output directory, not in it.
CombinedPackagePath_InWorkDir(name) == MkPath(WorkDir, "autovibez-" \o name \o "-complete", ".zip")

\* Variant: the two parts of the file name are swapped.
CombinedPackagePath_Swapped(name) == MkPath(OutputDir, "autovibez-complete-" \o name, ".zip")

CombinedPackagePath(name) == MkPath(OutputDir, "autovibez-" \o name \o "-complete", ".zip")

GuidePath == MkPath(OutputDir, "INSTALL_ASSETS", ".md")

Put(files, path, content) ==
    [p \in DOMAIN files \cup {path} |-> IF p = path THEN content ELSE files[p]]

\* What a failed write leaves behind: the file was created or truncated by
\* the open and holds an unspecified prefix of the data.
Partial == [kind |-> "partial"]

Foreign == [kind |-> "other"]

----------------------------------------------------------------------------
\* Clock and string conversions

Pad2(n) == IF n < 10 THEN "0" \o ToString(n) ELSE ToString(n)

\* The clock is sampled every two seconds, the resolution of the
\* modification time in a ZIP entry header.
\* datetime.now().isoformat() at a whole second (no fraction is printed
\* when the microsecond field is 0).
IsoFormat(t) == "2026-01-01T00:00:" \o Pad2(2 * t)

\* time.localtime(time.time())[:6] as the ZIP entry header stores it: the
\* seconds halved.
DosTime(t) == (2 * t) \div 2

\* str.title() on the names used.
Title(name) ==
    CASE name = "cream-of-the-crop" -> "Cream-Of-The-Crop"
      [] name = "milkdrop-original" -> "Milkdrop-Original"
      [] name = "milkdrop-textures" -> "Milkdrop-Textures"
      [] name = "presets" -> "Presets"
      [] name = "textures" -> "Textures"
      [] name = "complete" -> "Complete"

PyStr(s) == [t |-> "str", v |-> s]

PyList(l) == [t |-> "list", v |-> l]

\* json.dumps(d, indent=2) of a dict (a sequence of <<key, value>> in
\* insertion order): an object whose members keep that order.
JsonValue(v) ==
    CASE v.t = "str" -> [t |-> "string", v |-> v.v]
      [] v.t = "list" -> [t |-> "array", v |-> [i \in DOMAIN v.v |-> [t |-> "string", v |-> v.v[i]]]]

JsonDumps(d) ==
    [fmt |-> "json", indent |-> 2,
     members |-> [i \in DOMAIN d |-> <<d[i][1], JsonValue(d[i][2])>>]]

\* The index of the last pair of a sequence of <<key, value>> with key k.
LastIndex(members, k) ==
    CHOOSE i \in DOMAIN members :
        /\ members[i][1] = k
        /\ \A j \in DOMAIN members : members[j][1] = k => j <= i

Markdown(lines) == [fmt |-> "markdown", lines |-> lines]

----------------------------------------------------------------------------
\* zipfile

ZipOpen == [kind |-> "zip", compression |-> "ZIP_DEFLATED", entries |-> <<>>]

WriteStr(zipf, arcname, data, t) ==
    [zipf EXCEPT !.entries =
        Append(@, [filename |-> arcname, dos_time |-> DosTime(t), data |-> data])]

----------------------------------------------------------------------------
\* ReleaseAssetPackager

\* Variant: the version carries a build stamp taken from the clock.
PresetMetadata_BuildStamp(name, source_url, description, created) ==
    << <<"name", PyStr("AutoVibez Presets - " \o Title(name))>>,
       <<"description", PyStr(description)>>,
       <<"type", PyStr("presets")>>,
       <<"source_url", PyStr(source_url)>>,
       <<"created", PyStr(created)>>,
       <<"version", PyStr("1.0.0+" \o created)>> >>

PresetMetadata(name, source_url, description, created) ==
    << <<"name", PyStr("AutoVibez Presets - " \o Title(name))>>,
       <<"description", PyStr(description)>>,
       <<"type", PyStr("presets")>>,
       <<"source_url", PyStr(source_url)>>,
       <<"created", PyStr(created)>>,
       <<"version", PyStr("1.0.0")>> >>

PresetReadme(name, source_url, description, created) ==
    << <<"# AutoVibez Presets - ", Title(name)>>,
       <<"">>,
       <<description>>,
       <<"">>,
       <<"## ", "Installation">>,
       <<"">>,
       <<"1. Extract this ZIP file">>,
       <<"2. Copy the .milk files to your AutoVibez presets directory">>,
       <<"3. Restart AutoVibez">>,
       <<"">>,
       <<"## ", "Directory Locations">>,
       <<"">>,
       <<"**Windows:**">>,
       <<"~~~">>,
       <<"%APPDATA%\\autovibez\\presets\\">>,
       <<"~~~">>,
       <<"">>,
       <<"**macOS:**">>,
       <<"~~~">>,
       <<"~/Library/Application Support/autovibez/presets/">>,
       <<"~~~">>,
       <<"">>,
       <<"**Linux:**">>,
       <<"~~~">>,
       <<"~/.local/share/autovibez/presets/">>,
       <<"~~~">>,
       <<"">>,
       <<"## ", "Source">>,
       <<"">>,
       <<"Downloaded from: ", source_url>>,
       <<"">>,
       <<"Generated on: ", created>> >>

\* Variant: the type was left as copied from the preset method.
TextureMetadata_PresetType(name, source_url, description, created) ==
    << <<"name", PyStr("AutoVibez Textures - " \o Title(name))>>,
       <<"description", PyStr(description)>>,
       <<"type", PyStr("presets")>>,
       <<"source_url", PyStr(source_url)>>,
       <<"created", PyStr(created)>>,
       <<"version", PyStr("1.0.0")>> >>

TextureMetadata(name, source_url, description, created) ==
    << <<"name", PyStr("AutoVibez Textures - " \o Title(name))>>,
       <<"description", PyStr(description)>>,
       <<"type", PyStr("textures")>>,
       <<"source_url", PyStr(source_url)>>,
       <<"created", PyStr(created)>>,
       <<"version", PyStr("1.0.0")>> >>

TextureReadme(name, source_url, description, created) ==
    << <<"# AutoVibez Textures - ", Title(name)>>,
       <<"">>,
       <<description>>,
       <<"">>,
       <<"## ", "Installation">>,
       <<"">>,
       <<"1. Extract this ZIP file">>,
       <<"2. Copy the texture files to your AutoVibez textures directory">>,
       <<"3. Restart AutoVibez">>,
       <<"">>,
       <<"## ", "Directory Locations">>,
       <<"">>,
       <<"**Windows:**">>,
       <<"~~~">>,
       <<"%APPDATA%\\autovibez\\textures\\">>,
       <<"~~~">>,
       <<"">>,
       <<"**macOS:**">>,
       <<"~~~">>,
       <<"~/Library/Application Support/autovibez/textures/">>,
       <<"~~~">>,
       <<"">>,
       <<"**Linux:**">>,
       <<"~~~">>,
       <<"~/.local/share/autovibez/textures/">>,
       <<"~~~">>,
       <<"">>,
       <<"## ", "Supported Formats">>,
       <<"">>,
       <<"- PNG (recommended)">>,
       <<"- JPG/JPEG">>,
       <<"- BMP">>,
       <<"- TGA">>,
       <<"">>,
       <<"## ", "Source">>,
       <<"">>,
       <<"Downloaded from: ", source_url>>,
       <<"">>,
       <<"Generated on: ", created>> >>

CombinedMetadata(packages, name, description, created) ==
    << <<"name", PyStr("AutoVibez " \o Title(name) \o " - Complete")>>,
       <<"description", PyStr(description)>>,
       <<"type", PyStr(name)>>,
       <<"packages", PyList(packages)>>,
       <<"created", PyStr(created)>>,
       <<"version", PyStr("1.0.0")>> >>

\* chr(10).join([f"- {pkg}" for pkg in packages]): one line per package,
\* a single empty line when there is none.
PackageLines(packages) ==
    IF packages = <<>> THEN << <<"">> >>
    ELSE [i \in DOMAIN packages |-> <<"- ", packages[i]>>]

CombinedReadme(packages, name, description, created) ==
    << <<"# AutoVibez ", Title(name), " - Complete Package">>,
       <<"">>,
       <<description>>,
       <<"">>,
       <<"## ", "Contents">>,
       <<"">>,
       <<"This package contains:">> >>
    \o PackageLines(packages) \o
    << <<"">>,
       <<"## ", "Installation">>,
       <<"">>,
       <<"1. Extract this ZIP file">>,
       <<"2. Copy the files to your AutoVibez ", name, " directory">>,
       <<"3. Restart AutoVibez">>,
       <<"">>,
       <<"## ", "Directory Locations">>,
       <<"">>,
       <<"**Windows:**">>,
       <<"~~~">>,
       <<"%APPDATA%\\autovibez\\", name, "\\">>,
       <<"~~~">>,
       <<"">>,
       <<"**macOS:**">>,
       <<"~~~">>,
       <<"~/Library/Application Support/autovibez/", name, "/">>,
       <<"~~~">>,
       <<"">>,
       <<"**Linux:**">>,
       <<"~~~">>,
       <<"~/.local/share/autovibez/", name, "/">>,
       <<"~~~">>,
       <<"">>,
       <<"Generated on: ", created>> >>

GuideContent ==
    << <<"# ", "AutoVibez Asset Installation Guide">>,
       <<"">>,
       <<"## ", "Quick Start">>,
       <<"">>,
       <<"1. **Download Assets**: Get the preset and texture packages from the releases page">>,
       <<"2. **Extract Files**: Extract the ZIP files to your AutoVibez assets directory">>,
       <<"3. **Restart AutoVibez**: The app will automatically detect the new assets">>,
       <<"">>,
       <<"## ", "Asset Locations">>,
       <<"">>,
       <<"### ", "Windows">>,
       <<"~~~">>,
       <<"%APPDATA%\\autovibez\\presets\\">>,
       <<"%APPDATA%\\autovibez\\textures\\">>,
       <<"~~~">>,
       <<"">>,
       <<"### ", "macOS">>,
       <<"~~~">>,
       <<"~/Library/Application Support/autovibez/presets/">>,
       <<"~/Library/Application Support/autovibez/textures/">>,
       <<"~~~">>,
       <<"">>,
       <<"### ", "Linux">>,
       <<"~~~">>,
       <<"~/.local/share/autovibez/presets/">>,
       <<"~/.local/share/autovibez/textures/">>,
       <<"~~~">>,
       <<"">>,
       <<"## ", "Available Packages">>,
       <<"">>,
       <<"### ", "Preset Packages">>,
       <<"- **", "autovibez-presets-cream-of-the-crop.zip", "**: ", "~10,000 curated presets">>,
       <<"- **", "autovibez-presets-milkdrop-original.zip", "**: ", "Classic Milkdrop presets">>,
       <<"- **", "autovibez-presets-complete.zip", "**: ", "All presets combined">>,
       <<"">>,
       <<"### ", "Texture Packages">>,
       <<"- **", "autovibez-textures-milkdrop-textures.zip", "**: ", "Essential textures">>,
       <<"- **", "autovibez-textures-complete.zip", "**: ", "All textures combined">>,
       <<"">>,
       <<"## ", "Installation Steps">>,
       <<"">>,
       <<"### ", "Method 1: Automatic Installation">>,
       <<"1. Download the asset packages from the releases page">>,
       <<"2. Extract ZIP files to a temporary location">>,
       <<"3. Copy presets to your presets directory">>,
       <<"4. Copy textures to your textures directory">>,
       <<"5. Restart AutoVibez">>,
       <<"">>,
       <<"### ", "Method 2: Manual Installation">>,
       <<"1. Create the assets directories if they don't exist">>,
       <<"2. Download and extract the asset packages">>,
       <<"3. Copy .milk files to the presets directory">>,
       <<"4. Copy texture files to the textures directory">>,
       <<"5. Restart AutoVibez">>,
       <<"">>,
       <<"## ", "Verification">>,
       <<"">>,
       <<"After installation, AutoVibez will show:">>,
       <<"- Available presets in the help overlay (press H)">>,
       <<"- New visual effects during playback">>,
       <<"- Enhanced texture quality in presets">>,
       <<"">>,
       <<"## ", "Troubleshooting">>,
       <<"">>,
       <<"### ", "No New Effects">>,
       <<"- Restart AutoVibez after installing assets">>,
       <<"- Check that files are in the correct directories">>,
       <<"- Verify file permissions">>,
       <<"">>,
       <<"### ", "Missing Textures">>,
       <<"- Ensure textures are in the correct directory">>,
       <<"- Check that texture files are valid image formats">>,
       <<"- Restart AutoVibez after adding textures">>,
       <<"">>,
       <<"### ", "Corrupted Files">>,
       <<"- Re-download the asset packages">>,
       <<"- Check file integrity with checksums">>,
       <<"- Try extracting with different tools">>,
       <<"">>,
       <<"## ", "Package Information">>,
       <<"">>,
       <<"Each package contains:">>,
       <<"- **", "Presets", "**: ", ".milk files for visual effects">>,
       <<"- **", "Textures", "**: ", "PNG, JPG, BMP, TGA image files">>,
       <<"- **", "Metadata", "**: ", "Package information and source details">>,
       <<"- **", "README", "**: ", "Installation and usage instructions">>,
       <<"">>,
       <<"## ", "Sources">>,
       <<"">>,
       <<"All assets are sourced from the ProjectM community:">>,
       <<"- [Cream of the Crop Presets](https://github.com/projectM-visualizer/presets-cream-of-the-crop)">>,
       <<"- [Milkdrop Original Presets](https://github.com/projectM-visualizer/presets-milkdrop-original)">>,
       <<"- [Milkdrop Texture Pack](https://github.com/projectM-visualizer/presets-milkdrop-texture-pack)">>,
       <<"">>,
       <<"## ", "License">>,
       <<"">>,
       <<"Assets are provided under their respective licenses. Please refer to the source repositories for license details.">> >>

\* d[key] on a dict held as a sequence of <<key, value>>.
DictGet(d, key) == d[LastIndex(d, key)][2]

\* create_preset_package: the clock is read at t0 by datetime.now() and at
\* t1 and t2 by the two writestr calls.
PresetArchive(name, source_url, description, t0, t1, t2) ==
    LET metadata == PresetMetadata(name, source_url, description, IsoFormat(t0))
        zipf == WriteStr(ZipOpen, "metadata.json", JsonDumps(metadata), t1)
    IN  WriteStr(zipf, "README.md",
                 Markdown(PresetReadme(name, source_url, description,
                                       DictGet(metadata, "created").v)), t2)

\* Variant: the README takes its timestamp from the clock again.
TextureArchive_ClockPerEntry(name, source_url, description, t0, t1, t2) ==
    LET metadata == TextureMetadata(name, source_url, description, IsoFormat(t0))
        zipf == WriteStr(ZipOpen, "metadata.json", JsonDumps(metadata), t1)
    IN  WriteStr(zipf, "README.md",
                 Markdown(TextureReadme(name, source_url, description, IsoFormat(t2))), t2)

TextureArchive(name, source_url, description, t0, t1, t2) ==
    LET metadata == TextureMetadata(name, source_url, description, IsoFormat(t0))
        zipf == WriteStr(ZipOpen, "metadata.json", JsonDumps(metadata), t1)
    IN  WriteStr(zipf, "README.md",
                 Markdown(TextureReadme(name, source_url, description,
                                        DictGet(metadata, "created").v)), t2)

\* Variant: the list of packages is written as an entry of its own.
CombinedArchive_ThirdEntry(packages, name, description, t0, t1, t2) ==
    LET metadata == CombinedMetadata(packages, name, description, IsoFormat(t0))
        zipf == WriteStr(ZipOpen, "metadata.json", JsonDumps(metadata), t1)
        zipf2 == WriteStr(zipf, "packages.txt", Markdown(PackageLines(packages)), t1)
    IN  WriteStr(zipf2, "README.md",
                 Markdown(CombinedReadme(packages, name, description,
                                         DictGet(metadata, "created").v)), t2)

CombinedArchive(packages, name, description, t0, t1, t2) ==
    LET metadata == CombinedMetadata(packages, name, description, IsoFormat(t0))
        zipf == WriteStr(ZipOpen, "metadata.json", JsonDumps(metadata), t1)
    IN  WriteStr(zipf, "README.md",
                 Markdown(CombinedReadme(packages, name, description,
                                         DictGet(metadata, "created").v)), t2)

\* Variant: the file is opened and nothing is written to it.
GuideFile_Empty == [kind |-> "text", lines |-> <<>>]

GuideFile == [kind |-> "text", lines |-> GuideContent]

\* Outcomes of writing one file: it is written; the open raises (nothing
\* is created or truncated); or a write raises after the open.
\* ApiSpec follows the calls that return.
Faults == IF pc = "api" THEN {"none"} ELSE {"none", "open", "write"}

NoCall ==
    [op |-> "none", name |-> "", source_url |-> "", description |-> "",
     packages |-> <<>>, path |-> GuidePath, fault |-> "none"]

\* with zipfile.ZipFile(package_path, 'w', ...) / with open(guide_path, 'w')
WriteFile(path, content, fault) ==
    /\ fs' = CASE fault = "none" -> Put(fs, path, content)
               [] fault = "open" -> fs
               [] fault = "write" -> Put(fs, path, Partial)
    /\ written' = IF fault = "open" THEN written ELSE Append(written, path)

create_preset_package(name, source_url, description) ==
    \E t0 \in clock..MaxClock : \E t1 \in t0..MaxClock : \E t2 \in t1..MaxClock :
    \E fault \in Faults :
        /\ WriteFile(PresetPackagePath(name),
                     PresetArchive(name, source_url, description, t0, t1, t2), fault)
        /\ clock' = IF fault = "open" THEN t0 ELSE t2
        /\ lastCall' = [op |-> "create_preset_package", name |-> name,
                        source_url |-> source_url, description |-> description,
                        packages |-> <<>>, path |-> PresetPackagePath(name),
                        fault |-> fault]

create_texture_package(name, source_url, description) ==
    \E t0 \in clock..MaxClock : \E t1 \in t0..MaxClock : \E t2 \in t1..MaxClock :
    \E fault \in Faults :
        /\ WriteFile(TexturePackagePath(name),
                     TextureArchive(name, source_url, description, t0, t1, t2), fault)
        /\ clock' = IF fault = "open" THEN t0 ELSE t2
        /\ lastCall' = [op |-> "create_texture_package", name |-> name,
                        source_url |-> source_url, description |-> description,
                        packages |-> <<>>, path |-> TexturePackagePath(name),
                        fault |-> fault]

create_combined_package(packages, name, description) ==
    \E t0 \in clock..MaxClock : \E t1 \in t0..MaxClock : \E t2 \in t1..MaxClock :
    \E fault \in Faults :
        /\ WriteFile(CombinedPackagePath(name),
                     CombinedArchive(packages, name, description, t0, t1, t2), fault)
        /\ clock' = IF fault = "open" THEN t0 ELSE t2
        /\ lastCall' = [op |-> "create_combined_package", name |-> name,
                        source_url |-> "", description |-> description,
                        packages |-> packages, path |-> CombinedPackagePath(name),
                        fault |-> fault]

create_installation_guide ==
    \E fault \in Faults :
        /\ WriteFile(GuidePath, GuideFile, fault)
        /\ clock' = clock
        /\ lastCall' = [NoCall EXCEPT !.op = "create_installation_guide",
                                      !.fault = fault]

----------------------------------------------------------------------------
\* main

Line(segments) == [line |-> segments]

\* The lines of the loop over output_dir.glob("*.zip"): one per archive, in
\* the order the directory yields them, which is not specified.  The size
\* printed after each name is left out.
Listing(names) == [listing |-> names]

Glob(files, dir, suffix) == {p \in DOMAIN files : p.parent = dir /\ p.suffix = suffix}

print(lines) == stdout' = stdout \o [i \in DOMAIN lines |-> Line(lines[i])]

\* Variant: the exception is caught and main goes on.
Proceed_Swallow(next) ==
    /\ pc' = next
    /\ exc' = "none"

\* An exception raised by the statement at pc is not caught anywhere: main
\* stops there.  Otherwise control moves to the next statement.
Proceed(next) ==
    /\ pc' = IF lastCall'.fault = "none" THEN next ELSE pc
    /\ exc' = IF lastCall'.fault = "none" THEN "none" ELSE "OSError"

\* packager = ReleaseAssetPackager(): Path.mkdir(exist_ok=True).
Construct ==
    /\ pc = "init" /\ exc = "none"
    /\ \/ /\ OutputDirAsFile \in DOMAIN fs
          /\ exc' = "FileExistsError"
          /\ UNCHANGED <<dirs, pc>>
       \/ /\ OutputDirAsFile \notin DOMAIN fs
          /\ OutputDir \notin dirs
          /\ exc' = "OSError"
          /\ UNCHANGED <<dirs, pc>>
       \/ /\ OutputDirAsFile \notin DOMAIN fs
          /\ dirs' = dirs \cup {OutputDir}
          /\ pc' = "preset_cream"
          /\ exc' = "none"
    /\ UNCHANGED <<fs, clock, run, stdout, written, prev, lastCall, calls>>

PresetCream ==
    /\ pc = "preset_cream" /\ exc = "none"
    /\ print(<< <<"AutoVibez Release Asset Packager">>,
                <<"====================================">>,
                <<"">>, <<"Creating Preset Packages...">> >>)
    /\ create_preset_package("cream-of-the-crop",
           "https://github.com/projectM-visualizer/presets-cream-of-the-crop",
           "~10,000 curated presets from the ProjectM community")
    /\ Proceed("preset_milkdrop")
    /\ UNCHANGED <<dirs, run, prev, calls>>

\* Variant: main goes from the preset archives straight to the combined ones.
PresetMilkdrop_SkipsTexture ==
    /\ pc = "preset_milkdrop" /\ exc = "none"
    /\ create_preset_package("milkdrop-original",
           "https://github.com/projectM-visualizer/presets-milkdrop-original",
           "Classic Milkdrop presets from the original Winamp visualizer")
    /\ Proceed("combined_presets")
    /\ UNCHANGED <<dirs, run, prev, calls, stdout>>

PresetMilkdrop ==
    /\ pc = "preset_milkdrop" /\ exc = "none"
    /\ create_preset_package("milkdrop-original",
           "https://github.com/projectM-visualizer/presets-milkdrop-original",
           "Classic Milkdrop presets from the original Winamp visualizer")
    /\ Proceed("texture")
    /\ UNCHANGED <<dirs, run, prev, calls, stdout>>

Texture ==
    /\ pc = "texture" /\ exc = "none"
    /\ print(<< <<"">>, <<"Creating Texture Packages...">> >>)
    /\ create_texture_package("milkdrop-textures",
           "https://github.com/projectM-visualizer/presets-milkdrop-texture-pack",
           "Essential textures for Milkdrop-style visual effects")
    /\ Proceed("combined_presets")
    /\ UNCHANGED <<dirs, run, prev, calls>>

CombinedPresets ==
    /\ pc = "combined_presets" /\ exc = "none"
    /\ print(<< <<"">>, <<"Creating Combined Packages...">> >>)
    /\ create_combined_package(<<"Cream of the Crop", "Milkdrop Original">>,
           "presets", "Complete preset collection with all available presets")
    /\ Proceed("combined_textures")
    /\ UNCHANGED <<dirs, run, prev, calls>>

CombinedTextures ==
    /\ pc = "combined_textures" /\ exc = "none"
    /\ create_combined_package(<<"Milkdrop Textures">>,
           "textures", "Complete texture collection for all visual effects")
    /\ Proceed("guide")
    /\ UNCHANGED <<dirs, run, prev, calls, stdout>>

Guide ==
    /\ pc = "guide" /\ exc = "none"
    /\ print(<< <<"">>, <<"Creating Installation Guide...">> >>)
    /\ create_installation_guide
    /\ Proceed("summary")
    /\ UNCHANGED <<dirs, run, prev, calls>>

SuccessLine == Line(<<"Release Assets Created Successfully!">>)

\* The closing messages.  The output directory is printed by its relative
\* name (the script prints the absolute path).

Summary ==
    /\ pc = "summary" /\ exc = "none"
    /\ stdout' = stdout \o
          << Line(<<"">>), SuccessLine,
             Line(<<"======================================">>),
             Line(<<"">>), Line(<<"Output Directory: ", OutputDir>>),
             Line(<<"">>), Line(<<"Created Packages:">>),
             Listing({PathName(p) : p \in Glob(fs, OutputDir, ".zip")}),
             Line(<<"">>), Line(<<"Installation Guide: ", PathName(GuidePath)>>),
             Line(<<"">>), Line(<<"Ready for GitHub Release!">>) >>
    /\ pc' = "done"
    /\ UNCHANGED <<fs, dirs, clock, exc, run, written, prev, lastCall, calls>>

\* After a completed run the script is started again in the same working
\* directory: a new process, with the file system as the previous one left
\* it.
StartRun ==
    /\ pc = "done"
    /\ run < MaxRuns
    /\ run' = run + 1
    /\ pc' = "init"
    /\ exc' = "none"
    /\ stdout' = <<>>
    /\ written' = <<>>
    /\ prev' = fs
    /\ lastCall' = NoCall
    /\ UNCHANGED <<fs, dirs, clock, calls>>

MainStep ==
    \/ Construct
    \/ PresetCream
    \/ PresetMilkdrop
    \/ Texture
    \/ CombinedPresets
    \/ CombinedTextures
    \/ Guide
    \/ Summary

ElsewhereFile == MkPath(WorkDir, "README", ".md")

ForeignArchive == MkPath(OutputDir, "autovibez-old-build", ".zip")

\* The working directory before the first run: no output directory yet; an
\* empty one; one holding an archive of another tool and what an interrupted
\* earlier run left of its first archive; or a regular file in the place of
\* the directory.
InitialWorlds ==
    { [dirs |-> {}, fs |-> [p \in {ElsewhereFile} |-> Foreign]],
      [dirs |-> {OutputDir}, fs |-> [p \in {ElsewhereFile} |-> Foreign]],
      [dirs |-> {OutputDir},
       fs |-> [p \in {ElsewhereFile, ForeignArchive, PresetPackagePath("cream-of-the-crop")} |->
                 IF p = PresetPackagePath("cream-of-the-crop") THEN Partial ELSE Foreign]],
      [dirs |-> {}, fs |-> [p \in {ElsewhereFile, OutputDirAsFile} |-> Foreign]] }

Init ==
    /\ \E w \in InitialWorlds : dirs = w.dirs /\ fs = w.fs
    /\ clock = 0
    /\ pc = "init"
    /\ exc = "none"
    /\ run = 1
    /\ stdout = <<>>
    /\ written = <<>>
    /\ prev = fs
    /\ lastCall = NoCall
    /\ calls = 0

Next == MainStep \/ StartRun

Spec == Init /\ [][Next]_vars

\* A started process executes its next statement: nothing suspends it.
FairSpec == Spec /\ WF_vars(MainStep)

----------------------------------------------------------------------------
\* Direct use of a constructed ReleaseAssetPackager: any of its methods, in
\* any order, on arguments drawn from small sets.  The names include one
\* that makes a preset or texture archive and a combined archive share a
\* file name.

ApiArgs ==
    { <<"complete", "https://example.org/all", "Everything">>,
      <<"presets", "https://example.org/presets", "">>,
      <<"cream-of-the-crop",
        "https://github.com/projectM-visualizer/presets-cream-of-the-crop",
        "Everything">> }

ApiCombinedArgs ==
    { << <<"Cream of the Crop", "Milkdrop Original">>, "presets", "Everything">>,
      << <<"Milkdrop Textures">>, "textures", "">>,
      << <<>>, "complete", "">> }

ApiInit ==
    /\ dirs = {OutputDir}
    /\ fs = [p \in {ElsewhereFile} |-> Foreign]
    /\ clock = 0
    /\ pc = "api"
    /\ exc = "none"
    /\ run = 0
    /\ stdout = <<>>
    /\ written = <<>>
    /\ prev = fs
    /\ lastCall = NoCall
    /\ calls = 0

ApiCall ==
    /\ pc = "api"
    /\ calls < MaxCalls
    /\ calls' = calls + 1
    /\ UNCHANGED <<dirs, pc, exc, run, stdout, prev>>

ApiPreset == ApiCall /\ \E a \in ApiArgs : create_preset_package(a[1], a[2], a[3])

ApiTexture == ApiCall /\ \E a \in ApiArgs : create_texture_package(a[1], a[2], a[3])

ApiCombined == ApiCall /\ \E a \in ApiCombinedArgs : create_combined_package(a[1], a[2], a[3])

ApiGuide == ApiCall /\ create_installation_guide

ApiNext == ApiPreset \/ ApiTexture \/ ApiCombined \/ ApiGuide

ApiSpec == ApiInit /\ [][ApiNext]_vars

----------------------------------------------------------------------------
\* Properties

Range(s) == {s[i] : i \in DOMAIN s}

NoDuplicates(s) == \A i, j \in DOMAIN s : s[i] = s[j] => i = j

PackageOps == {"create_preset_package", "create_texture_package", "create_combined_package"}

\* The last method called was one of the three create_*_package methods and
\* it returned.
PackageCall == lastCall.op \in PackageOps /\ lastCall.fault = "none"

Produced == fs[lastCall.path]

EntryNames(a) == [i \in DOMAIN a.entries |-> a.entries[i].filename]

EntryData(a, filename) ==
    a.entries[CHOOSE i \in DOMAIN a.entries : a.entries[i].filename = filename].data

SourceKeys == {"name", "description", "type", "source_url", "created", "version"}

CombinedKeys == {"name", "description", "type", "packages", "created", "version"}

ExpectedKeys(op) == IF op = "create_combined_package" THEN CombinedKeys ELSE SourceKeys

Archives(files) == {p \in DOMAIN files : files[p].kind = "zip"}

\* json.loads: the object as a mapping; of members with the same key the
\* last one wins.
PyValue(j) ==
    CASE j.t = "string" -> PyStr(j.v)
      [] j.t = "array" -> PyList([i \in DOMAIN j.v |-> j.v[i].v])

JsonLoads(doc) ==
    [k \in {doc.members[i][1] : i \in DOMAIN doc.members} |->
        PyValue(doc.members[LastIndex(doc.members, k)][2])]

IsJson(doc) ==
    /\ doc.fmt = "json"
    /\ \A i \in DOMAIN doc.members : doc.members[i][2].t \in {"string", "array"}

Metadata(a) == JsonLoads(EntryData(a, "metadata.json"))

\* C1 (as amended): the archive produced by create_preset_package,
\* create_texture_package or create_combined_package holds exactly two
\* entries, metadata.json and README.md, also when it is a combined archive
\* (whose package list is a member of metadata.json); metadata.json is valid
\* JSON and parses to an object with the keys name, description, type,
\* source_url, created, version (packages in the place of source_url for a
\* combined archive).
C1_TwoEntriesValidJson ==
    PackageCall =>
        /\ Produced.kind = "zip"
        /\ EntryNames(Produced) = <<"metadata.json", "README.md">>
        /\ IsJson(EntryData(Produced, "metadata.json"))
        /\ DOMAIN Metadata(Produced) = ExpectedKeys(lastCall.op)

\* C1 (as stated): a preset or texture archive holds exactly two entries and
\* a combined archive exactly three; metadata.json is valid JSON with the
\* expected keys.
C1_ThreeEntriesWhenCombined ==
    PackageCall =>
        /\ Produced.kind = "zip"
        /\ Len(Produced.entries) = IF lastCall.op = "create_combined_package" THEN 3 ELSE 2
        /\ IsJson(EntryData(Produced, "metadata.json"))
        /\ DOMAIN Metadata(Produced) = ExpectedKeys(lastCall.op)

C1_Witness ==
    /\ PackageCall
    /\ lastCall.op = "create_combined_package"
    /\ Len(Produced.entries) = 2
    /\ Metadata(Produced)["packages"] = PyList(lastCall.packages)

\* What is left of an archive when the value of "created" in metadata.json
\* and the timestamp of the "Generated on" line of README.md are blanked.
ScrubMember(m) == IF m[1] = "created" THEN <<m[1], [t |-> "string", v |-> ""]>> ELSE m

ScrubLine(l) == IF Len(l) = 2 /\ l[1] = "Generated on: " THEN <<l[1], "">> ELSE l

ScrubData(d) ==
    IF d.fmt = "json"
    THEN [d EXCEPT !.members = [i \in DOMAIN d.members |-> ScrubMember(d.members[i])]]
    ELSE [d EXCEPT !.lines = [i \in DOMAIN d.lines |-> ScrubLine(d.lines[i])]]

ScrubEmbedded(a) ==
    [a EXCEPT !.entries =
        [i \in DOMAIN a.entries |-> [a.entries[i] EXCEPT !.data = ScrubData(a.entries[i].data)]]]

\* ... and when the modification times of the entry headers are blanked too.
ScrubHeaders(a) ==
    [a EXCEPT !.entries = [i \in DOMAIN a.entries |-> [a.entries[i] EXCEPT !.dos_time = 0]]]

\* The archives of the previous run that are still, or again, in place.
Rebuilt == Archives(fs) \cap Archives(prev)

\* C2 (as amended): two runs with the same arguments that differ only in the
\* clock agree on every part of each archive other than the "created" value
\* of metadata.json, the "Generated on" line of README.md and the
\* modification time that writestr stamps, from the clock, into the header
\* of each entry.
C2_SameExceptClockValues ==
    \A p \in Rebuilt :
        ScrubHeaders(ScrubEmbedded(fs[p])) = ScrubHeaders(ScrubEmbedded(prev[p]))

\* C2 (as stated): the two archives agree on every part other than the
\* "created" value and the "Generated on" line.
C2_SameExceptCreated ==
    \A p \in Rebuilt : ScrubEmbedded(fs[p]) = ScrubEmbedded(prev[p])

C2_Witness ==
    /\ run = 2
    /\ pc = "done"
    /\ \E p \in Rebuilt :
        /\ p \in Range(written)
        /\ Metadata(fs[p])["created"] # Metadata(prev[p])["created"]

\* The guide was written by the current process and is not empty.
GuideWritten ==
    /\ GuidePath \in Range(written)
    /\ GuidePath \in DOMAIN fs
    /\ fs[GuidePath].kind = "text"
    /\ fs[GuidePath].lines # <<>>

WritesTo(p) == written' = Append(written, p)

\* C4 (as amended): within one run of main every archive is created once
\* and written once: no path is opened for writing twice, and a file the
\* run has written is not changed for the rest of the run.  (A later run,
\* or another call that maps to the same file name, replaces the archive.)
C4_WrittenOncePerRun ==
    /\ [](NoDuplicates(written))
    /\ [][\A p \in Range(written) :
            run' = run => p \in DOMAIN fs' /\ fs'[p] = fs[p]]_vars

\* C4 (as stated): no path that already holds an archive is written again.
C4_NeverWrittenAgain == [][\A p \in Archives(fs) : ~WritesTo(p)]_vars

C4_Witness ==
    /\ run = 2
    /\ pc = "done"
    /\ Len(written) = 6
    /\ \A p \in Range(written) : p \in DOMAIN prev

\* C5 (as amended): metadata.json of a preset or texture archive carries
\* exactly name, description, type ("presets" or "textures"), source_url,
\* created and version "1.0.0"; that of a combined archive carries name,
\* description, type, packages, created and version "1.0.0": it has no
\* source URL, and its type is the name argument of the call ("presets" or
\* "textures" in main, never "combined").
C5_Descriptor ==
    PackageCall =>
        LET m == Metadata(Produced) IN
        /\ m["description"] = PyStr(lastCall.description)
        /\ m["version"] = PyStr("1.0.0")
        /\ \E t \in 0..clock : m["created"] = PyStr(IsoFormat(t))
        /\ CASE lastCall.op = "create_preset_package" ->
                  /\ DOMAIN m = SourceKeys
                  /\ m["name"] = PyStr("AutoVibez Presets - " \o Title(lastCall.name))
                  /\ m["type"] = PyStr("presets")
                  /\ m["source_url"] = PyStr(lastCall.source_url)
             [] lastCall.op = "create_texture_package" ->
                  /\ DOMAIN m = SourceKeys
                  /\ m["name"] = PyStr("AutoVibez Textures - " \o Title(lastCall.name))
                  /\ m["type"] = PyStr("textures")
                  /\ m["source_url"] = PyStr(lastCall.source_url)
             [] lastCall.op = "create_combined_package" ->
                  /\ DOMAIN m = CombinedKeys
                  /\ m["name"] = PyStr("AutoVibez " \o Title(lastCall.name) \o " - Complete")
                  /\ m["type"] = PyStr(lastCall.name)
                  /\ m["packages"] = PyList(lastCall.packages)

\* C5 (as stated): metadata.json of every archive, of all three variants,
\* carries a name, a source URL, a description, a type that is one of
\* presets / textures / combined, a creation timestamp and the version
\* "1.0.0".
C5_SameFieldsInAllVariants ==
    PackageCall =>
        LET m == Metadata(Produced) IN
        /\ SourceKeys \subseteq DOMAIN m
        /\ m["type"].v \in {"presets", "textures", "combined"}
        /\ m["version"] = PyStr("1.0.0")

C5_Witness ==
    /\ PackageCall
    /\ lastCall.op = "create_combined_package"
    /\ "source_url" \notin DOMAIN Metadata(Produced)
    /\ Metadata(Produced)["type"] = PyStr("complete")

\* The paths a step opens for writing.
NewWrites ==
    IF Len(written') > Len(written)
    THEN {written'[i] : i \in (Len(written) + 1)..Len(written')}
    ELSE {}

PackagingSteps ==
    {"preset_cream", "preset_milkdrop", "texture", "combined_presets",
     "combined_textures", "guide"}

C6_Frame ==
    /\ Cardinality(NewWrites) <= 1
    /\ \A p \in NewWrites : p.parent = OutputDir /\ OutputDir \in dirs
    /\ \A p \in DOMAIN fs \ NewWrites : p \in DOMAIN fs' /\ fs'[p] = fs[p]
    /\ DOMAIN fs' \subseteq DOMAIN fs \cup NewWrites
    /\ dirs' \subseteq dirs \cup {OutputDir}
    /\ (pc \in PackagingSteps /\ pc' # pc) =>
           /\ NewWrites = {lastCall'.path}
           /\ fs'[lastCall'.path].kind \in {"zip", "text"}

C6_Complete ==
    /\ pc # "init" => OutputDir \in dirs
    /\ pc = "done" =>
           /\ Len(written) = 6
           /\ Cardinality({p \in Range(written) : p.suffix = ".zip"}) = 5
           /\ {p \in Range(written) : p.suffix # ".zip"} = {GuidePath}
           /\ \A p \in Range(written) : p.parent = OutputDir

\* C6: each packaging operation writes exactly one file, inside the output
\* directory (which the constructor has created if it was absent), and
\* leaves every other file as it was; a complete run of main writes exactly
\* five ZIP files and the guide, all into release-assets/.
C6_OneFilePerOperation == []C6_Complete /\ [][C6_Frame]_vars

C6_Witness ==
    /\ pc = "done"
    /\ Len(written) = 6
    /\ ForeignArchive \in DOMAIN fs
    /\ ElsewhereFile \in DOMAIN fs

StepNo(step) ==
    CASE step = "init" -> 0
      [] step = "preset_cream" -> 1
      [] step = "preset_milkdrop" -> 2
      [] step = "texture" -> 3
      [] step = "combined_presets" -> 4
      [] step = "combined_textures" -> 5
      [] step = "guide" -> 6
      [] step = "summary" -> 7
      [] step = "done" -> 8

Printed(l) == \E i \in DOMAIN stdout : DOMAIN stdout[i] = {"line"} /\ stdout[i] = l

C7_Stopped ==
    /\ lastCall.fault # "none" => exc = "OSError"
    /\ exc # "none" =>
           /\ pc \in PackagingSteps \cup {"init"}
           /\ Len(written) <= StepNo(pc)
           /\ Len(written) >= StepNo(pc) - 1
           /\ \A i \in 1..(StepNo(pc) - 1) : fs[written[i]].kind \in {"zip", "text"}
           /\ ~Printed(SuccessLine)

C7_FailingStep ==
    /\ exc # "none" => UNCHANGED vars
    /\ (exc = "none" /\ exc' # "none") =>
           /\ dirs' = dirs
           /\ \A p \in DOMAIN fs :
                  (pc = "init" \/ p # lastCall'.path) => p \in DOMAIN fs' /\ fs'[p] = fs[p]

\* C7: a file-system failure during main is not handled: the exception ends
\* the process at the failing step, no later step runs, nothing is retried,
\* and the files written by earlier steps stay as they were.
C7_FaultTerminates == []C7_Stopped /\ [][C7_FailingStep]_vars

C7_Witness ==
    /\ exc = "OSError"
    /\ pc = "texture"
    /\ Len(written) >= 2
    /\ fs[written[1]].kind = "zip"
    /\ fs[written[2]].kind = "zip"

MainOrder ==
    << "autovibez-presets-cream-of-the-crop.zip",
       "autovibez-presets-milkdrop-original.zip",
       "autovibez-textures-milkdrop-textures.zip",
       "autovibez-presets-complete.zip",
       "autovibez-textures-complete.zip",
       "INSTALL_ASSETS.md" >>

\* C8: main writes the files in the fixed order cream-of-the-crop,
\* milkdrop-original, milkdrop-textures, presets-complete,
\* textures-complete, guide; the guide is written only after all five
\* archives were, and the success summary is printed only after the guide
\* was written.
C8_FixedOrder ==
    /\ Len(written) <= Len(MainOrder)
    /\ \A i \in DOMAIN written : PathName(written[i]) = MainOrder[i]
    /\ GuidePath \in Range(written) =>
           /\ Len(written) = 6
           /\ \A i \in 1..5 : fs[written[i]].kind = "zip"
    /\ Printed(SuccessLine) => GuideWritten

C8_Witness == pc = "done" /\ Printed(SuccessLine) /\ Len(written) = 6

GeneratedOn(readme) ==
    {l[2] : l \in {x \in Range(readme.lines) : Len(x) = 2 /\ x[1] = "Generated on: "}}

\* C9: in every archive the timestamp of the "Generated on" line of
\* README.md is the value of "created" in metadata.json.
C9_OneTimestampPerArchive ==
    \A p \in Archives(fs) :
        GeneratedOn(EntryData(fs[p], "README.md")) = {Metadata(fs[p])["created"].v}

C9_Witness ==
    \E p \in Archives(fs) :
        /\ lastCall.op = "create_texture_package"
        /\ lastCall.path = p
        /\ Metadata(fs[p])["created"] = PyStr(IsoFormat(0))
        /\ fs[p].entries[2].dos_time # DosTime(0)

IsHeading2(l) == Len(l) = 2 /\ l[1] = "## "

\* The file names in bold in the list items of the section of the guide
\* headed "Available Packages".
GuidePackages(lines) ==
    LET h == CHOOSE i \in DOMAIN lines :
                 IsHeading2(lines[i]) /\ lines[i][2] = "Available Packages"
        InSection(i) == i > h /\ \A j \in (h + 1)..i : ~IsHeading2(lines[j])
    IN  {lines[i][2] : i \in {k \in DOMAIN lines :
                                 InSection(k) /\ Len(lines[k]) = 4 /\ lines[k][1] = "- **"}}

\* C10: after a complete run of main, the names of the archives written by
\* the run are exactly the package file names listed under "Available
\* Packages" in the guide.
C10_GuideListsArchives ==
    pc = "done" =>
        {PathName(p) : p \in {q \in Range(written) : q.suffix = ".zip"}}
            = GuidePackages(fs[GuidePath].lines)

C10_Witness ==
    /\ pc = "done"
    /\ Cardinality(GuidePackages(fs[GuidePath].lines)) = 5

====
